---- MODULE Spec2Model ----
(***************************************************************************)
(* Model of the background job manager of api/job_manager.py together     *)
(* with its persistence backends (the local JSON file and                  *)
(* api/redis_store.py).                                                    *)
(*                                                                         *)
(* A job id j names the j-th call of create_job: its Job object, its      *)
(* closure _run and the thread that calls create_job.  The manager's      *)
(* table, its mutex, its per-repository locks, the executor's queue and   *)
(* worker threads, the two stores and the clock are the state.            *)
(***************************************************************************)
EXTENDS Integers, Sequences, FiniteSets, TLC

\* ------------------------------------------------------------------ bounds
MaxJobs == 2          \* create_job calls over the whole run (ids 1..MaxJobs)
MaxWorkers == 2       \* max_workers handed to JobManager is in 1..MaxWorkers
MaxTime == 1          \* the clock reads 0..MaxTime
MaxRestarts == 1      \* times the process is stopped and a manager built anew
MaxOutages == 1       \* times the configured store becomes unreachable
MaxCalls == 1         \* update_job / get_job / list_jobs calls from outside

JobIds == 1..MaxJobs
Keys == {"repo1", "repo2"}
RepoTypes == {"github"}

\* ---------------------------------------------------------------- JobStatus
QUEUED == "queued"
RUNNING == "running"
SUCCESS == "success"
FAILED == "failed"
Terminal == {SUCCESS, FAILED}

\* ------------------------------------------------------------ Python values
\* Optional[str] fields and metadata values carry their Python type, so that
\* serialisation is a conversion and not the identity.
PyNone == [py |-> "NoneType", v |-> <<>>]
PyStr(s) == [py |-> "str", v |-> <<s>>]
PyList(s) == [py |-> "list", v |-> s]
PyTuple(s) == [py |-> "tuple", v |-> s]

\* metadata arguments handed to create_job: Dict[str, Any]
Metadatas == {[source |-> PyStr("api")], [tags |-> PyTuple(<<"a", "b">>)]}

\* task arguments handed to create_job: a callable that returns, or raises
\* Exception(msg)
TaskReturns == [raises |-> FALSE, msg |-> ""]
TaskRaises(m) == [raises |-> TRUE, msg |-> m]
Tasks == {TaskReturns, TaskRaises("boom")}

\* progress markers a task posts through update_job while it runs
ProgressMarks == {"working"}

\* ------------------------------------------------------------------ threads
NoThread == <<>>
Creator(j) == <<"create_job", j>>
Runner(j) == <<"_run", j>>
Outside == <<"caller">>

NoCall == [made |-> FALSE]

VARIABLES
    jobs,          \* self.jobs: table key -> Job
    lock,          \* self.lock: the thread holding the table mutex
    repo_locks,    \* self.repo_locks: repo_url -> holder (0: free) of its Lock
    queue,         \* the executor's work queue of submitted _run closures
    max_workers,   \* the size of self.executor
    busy,          \* the jobs whose _run occupies a worker thread of the executor
    call,          \* per create_job call: its arguments, closed over by _run
    cpc,           \* per create_job call: position of the calling thread
    rpc,           \* per _run closure: position of the worker executing it
    redis_url,     \* a redis_url was handed to JobManager (REDIS_URL is set)
    redis_store,   \* self.redis_store is set
    file,          \* the document at JOB_STORE_PATH (empty: no file)
    redis,         \* the document under the Redis key (empty: no key)
    now,           \* time.time()
    restarts,      \* managers built after the first
    store_up,      \* the configured store can be read and written
    outages,       \* times the store became unreachable
    ext            \* the outside caller: its position, call count and reply

vars == <<jobs, lock, repo_locks, queue, max_workers, busy, call, cpc, rpc, redis_url,
          redis_store, file, redis, now, restarts, store_up, outages, ext>>

\* ---------------------------------------------------------------------- Job
\* Job.__init__
Job(id, repo_url, repo_type, metadata, t) ==
    [id |-> id, repo_url |-> repo_url, repo_type |-> repo_type,
     status |-> QUEUED, error |-> PyNone, progress |-> PyNone,
     created_at |-> t, updated_at |-> t, metadata |-> metadata]

\* a to_dict that leaves out the error
to_dictNoError(job) ==
    [id |-> job.id, repo_url |-> job.repo_url, repo_type |-> job.repo_type,
     status |-> job.status, progress |-> job.progress,
     created_at |-> job.created_at, updated_at |-> job.updated_at,
     metadata |-> job.metadata]

\* Job.to_dict
to_dict(job) ==
    [id |-> job.id, repo_url |-> job.repo_url, repo_type |-> job.repo_type,
     status |-> job.status, error |-> job.error, progress |-> job.progress,
     created_at |-> job.created_at, updated_at |-> job.updated_at,
     metadata |-> job.metadata]

\* --------------------------------------------------------------------- json
JsonNull == [json |-> "null", v |-> <<>>]

\* json.dumps raises TypeError on a value that has no JSON form
Serialisable(x) == x.py \in {"NoneType", "str", "list", "tuple"}

\* json.dumps of one Python value: a tuple is written as an array, as a list is
JsonDumpsValue(x) ==
    CASE x.py = "NoneType" -> JsonNull
      [] x.py = "str" -> [json |-> "string", v |-> x.v]
      [] x.py \in {"list", "tuple"} -> [json |-> "array", v |-> x.v]

\* json.loads of one JSON value: every array is read back as a list
JsonLoadsValue(x) ==
    CASE x.json = "null" -> PyNone
      [] x.json = "string" -> [py |-> "str", v |-> x.v]
      [] x.json = "array" -> [py |-> "list", v |-> x.v]

\* the fields of a snapshot whose Python values are Optional[str]
OptionalFields == {"error", "progress"}

\* json.dumps of one snapshot dict (strings and numbers are written as they are)
JsonDumpsItem(d) ==
    [f \in DOMAIN d |->
        IF f \in OptionalFields THEN JsonDumpsValue(d[f])
        ELSE IF f = "metadata"
        THEN [k \in DOMAIN d[f] |-> JsonDumpsValue(d[f][k])]
        ELSE d[f]]

\* json.loads of one snapshot object
JsonLoadsItem(d) ==
    [f \in DOMAIN d |->
        IF f \in OptionalFields THEN JsonLoadsValue(d[f])
        ELSE IF f = "metadata"
        THEN [k \in DOMAIN d[f] |-> JsonLoadsValue(d[f][k])]
        ELSE d[f]]

\* json.dumps(payload) succeeds
CanDump(payload) ==
    \A d \in payload :
        /\ \A f \in OptionalFields \cap DOMAIN d : Serialisable(d[f])
        /\ \A k \in DOMAIN d.metadata : Serialisable(d.metadata[k])

\* json.dumps(payload) / json.loads(raw): the document is the collection of
\* its objects
JsonDumps(payload) == {JsonDumpsItem(d) : d \in payload}
JsonLoads(raw) == {JsonLoadsItem(d) : d \in raw}

\* ------------------------------------------------------------- persistence
\* RedisStore.load: a missing key and a read error both give []
RedisLoad(raw, ok) == IF ok /\ raw # {} THEN JsonLoads(raw) ELSE {}

\* dict.get(key, default)
Get(item, key, default) == IF key \in DOMAIN item THEN item[key] ELSE default

\* the id of a Job constructed by _load_store before item["id"] replaces it
FreshId == 0

\* a loop body that puts an interrupted job back to QUEUED for a replay
LoadJobRequeues(item, t) ==
    LET job == Job(FreshId, Get(item, "repo_url", ""), Get(item, "repo_type", ""),
                   Get(item, "metadata", <<>>), t)
        created == Get(item, "created_at", t)
        status == Get(item, "status", QUEUED)
    IN  [job EXCEPT !.id = Get(item, "id", job.id),
                    !.status = IF status = RUNNING THEN QUEUED ELSE status,
                    !.error = Get(item, "error", PyNone),
                    !.progress = Get(item, "progress", PyNone),
                    !.created_at = created,
                    !.updated_at = Get(item, "updated_at", created)]

\* the body of the loop of _load_store: one Job per stored item
LoadJob(item, t) ==
    LET job == Job(FreshId, Get(item, "repo_url", ""), Get(item, "repo_type", ""),
                   Get(item, "metadata", <<>>), t)
        created == Get(item, "created_at", t)
    IN  [job EXCEPT !.id = Get(item, "id", job.id),
                    !.status = Get(item, "status", QUEUED),
                    !.error = Get(item, "error", PyNone),
                    !.progress = Get(item, "progress", PyNone),
                    !.created_at = created,
                    !.updated_at = Get(item, "updated_at", created)]

\* self.jobs[job.id] = job for every item of data
TableOf(data, t) ==
    LET ids == {LoadJob(item, t).id : item \in data}
    IN  [i \in ids |-> CHOOSE job \in {LoadJob(item, t) : item \in data} : job.id = i]

\* a _load_store that keeps what it can read of the store after a failure
LoadStoreReadsAnyway(use_redis, ok, t) ==
    IF use_redis THEN TableOf(JsonLoads(redis), t) ELSE TableOf(JsonLoads(file), t)

\* JobManager._load_store: the table a new manager starts with; use_redis is
\* self.redis_store, ok is whether the read succeeds
LoadStore(use_redis, ok, t) ==
    IF use_redis THEN TableOf(RedisLoad(redis, ok), t)
    ELSE IF ok THEN TableOf(JsonLoads(file), t)
    ELSE <<>>

\* the payload of _persist
Payload(table) == {to_dict(table[k]) : k \in DOMAIN table}

\* a _persist that lets the error of a failed write escape to its caller
PersistOrRaise ==
    LET payload == Payload(jobs')
    IN  /\ store_up /\ CanDump(payload)
        /\ redis' = IF redis_store THEN JsonDumps(payload) ELSE redis
        /\ file' = IF ~redis_store THEN JsonDumps(payload) ELSE file

\* JobManager._persist (with RedisStore.save): the whole table is written to
\* the configured backend; a failed write is swallowed and leaves the store
Persist ==
    LET payload == Payload(jobs')
        written == store_up /\ CanDump(payload)
    IN  /\ redis' = IF written /\ redis_store THEN JsonDumps(payload) ELSE redis
        /\ file' = IF written /\ ~redis_store THEN JsonDumps(payload) ELSE file

\* ------------------------------------------------------------------ initial
NoJobs == [k \in {} |-> 0]
NoLocks == [k \in {} |-> 0]
\* what a public method hands back to the outside caller: nothing (update_job),
\* None or a dict (get_job), a list of dicts (list_jobs)
NoReply == [nothing |-> TRUE]
NoneReply == [none |-> TRUE]
DictReply(d) == [dict |-> d]
ListReply(l) == [list |-> l]

ExtIdle == [pc |-> "idle", calls |-> 0, reply |-> NoReply]

\* JobManager.__init__(max_workers, redis_url) over empty stores; use_redis is
\* whether a redis_url is given, from which RedisStore is constructed
Boot(w, use_redis) ==
    /\ jobs = NoJobs
    /\ max_workers = w
    /\ lock = NoThread
    /\ repo_locks = NoLocks
    /\ queue = <<>>
    /\ busy = {}
    /\ call = [j \in JobIds |-> NoCall]
    /\ cpc = [j \in JobIds |-> "idle"]
    /\ rpc = [j \in JobIds |-> "none"]
    /\ redis_url = use_redis
    /\ redis_store = use_redis
    /\ file = {}
    /\ redis = {}
    /\ now = 0
    /\ restarts = 0
    /\ store_up = TRUE
    /\ outages = 0
    /\ ext = ExtIdle

store_vars == <<redis_url, redis_store, file, redis, store_up, outages>>
pool_vars == <<queue, max_workers, busy>>

\* ------------------------------------------------------------------ _update
\* the setattr loop of _update: keyword arguments naming an attribute are set
SetAttrs(job, kwargs) ==
    [f \in DOMAIN job |-> IF f \in DOMAIN kwargs THEN kwargs[f] ELSE job[f]]

\* the mutation of _update under the mutex, for a job_id the table holds
Updated(table, job_id, kwargs, t) ==
    [table EXCEPT ![job_id] = [SetAttrs(@, kwargs) EXCEPT !.updated_at = t]]

\* the keyword arguments _run passes when it starts a job
StartKwargs == [status |-> RUNNING, progress |-> PyStr("starting")]

\* an except branch that records the failure but not the message
FinalKwargsNoMessage(task) ==
    IF task.raises
    THEN [status |-> FAILED, progress |-> PyStr("error")]
    ELSE [status |-> SUCCESS, progress |-> PyStr("done")]

\* the keyword arguments _run passes when the task has returned or raised
FinalKwargs(task) ==
    IF task.raises
    THEN [status |-> FAILED, error |-> PyStr(task.msg), progress |-> PyStr("error")]
    ELSE [status |-> SUCCESS, progress |-> PyStr("done")]

\* --------------------------------------------------------------- create_job
\* create_job is called: the Job is constructed
CreateJob(j, repo_url, repo_type, metadata, task) ==
    /\ cpc[j] = "idle"
    /\ \A i \in JobIds : i < j => cpc[i] # "idle"
    /\ call' = [call EXCEPT ![j] =
                  [made |-> TRUE, repo_url |-> repo_url, task |-> task,
                   job |-> Job(j, repo_url, repo_type, metadata, now)]]
    /\ cpc' = [cpc EXCEPT ![j] = "insert"]
    /\ UNCHANGED <<jobs, lock, repo_locks, pool_vars, rpc, store_vars, now, restarts, ext>>

\* with self.lock: self.jobs[job.id] = job
CreateInsert(j) ==
    /\ cpc[j] = "insert"
    /\ lock = NoThread
    /\ lock' = Creator(j)
    /\ jobs' = [k \in DOMAIN jobs \cup {j} |-> IF k = j THEN call[j].job ELSE jobs[k]]
    /\ cpc' = [cpc EXCEPT ![j] = "persist"]
    /\ UNCHANGED <<repo_locks, pool_vars, call, rpc, store_vars, now, restarts, ext>>

\* self._persist() and the end of the with block
CreatePersist(j) ==
    /\ cpc[j] = "persist"
    /\ lock = Creator(j)
    /\ UNCHANGED jobs
    /\ Persist
    /\ lock' = NoThread
    /\ cpc' = [cpc EXCEPT ![j] = "submit"]
    /\ UNCHANGED <<repo_locks, pool_vars, call, rpc, redis_url, redis_store, store_up, outages, now, restarts, ext>>

\* a submit that hands the closure to a worker only once one is idle
CreateSubmitWhenIdle(j) ==
    /\ cpc[j] = "submit"
    /\ Cardinality(busy) < max_workers
    /\ queue' = Append(queue, j)
    /\ cpc' = [cpc EXCEPT ![j] = "return"]
    /\ UNCHANGED <<jobs, lock, repo_locks, max_workers, busy, call, rpc, store_vars, now, restarts, ext>>

\* self.executor.submit(_run)
CreateSubmit(j) ==
    /\ cpc[j] = "submit"
    /\ queue' = Append(queue, j)
    /\ cpc' = [cpc EXCEPT ![j] = "return"]
    /\ UNCHANGED <<jobs, lock, repo_locks, max_workers, busy, call, rpc, store_vars, now, restarts, ext>>

\* return job
CreateReturn(j) ==
    /\ cpc[j] = "return"
    /\ cpc' = [cpc EXCEPT ![j] = "done"]
    /\ UNCHANGED <<jobs, lock, repo_locks, pool_vars, call, rpc, store_vars, now, restarts, ext>>

\* --------------------------------------------------------------------- _run
\* a worker thread that takes the newest queued closure
DequeueNewest ==
    /\ Cardinality(busy) < max_workers
    /\ queue # <<>>
    /\ busy' = busy \cup {queue[Len(queue)]}
    /\ queue' = SubSeq(queue, 1, Len(queue) - 1)
    /\ rpc' = [rpc EXCEPT ![queue[Len(queue)]] = "get_repo_lock"]
    /\ UNCHANGED <<jobs, lock, repo_locks, max_workers, call, cpc, store_vars, now, restarts, ext>>

\* an executor that starts a thread for every queued closure
DequeueUnbounded ==
    /\ queue # <<>>
    /\ busy' = busy \cup {Head(queue)}
    /\ queue' = Tail(queue)
    /\ rpc' = [rpc EXCEPT ![Head(queue)] = "get_repo_lock"]
    /\ UNCHANGED <<jobs, lock, repo_locks, max_workers, call, cpc, store_vars, now, restarts, ext>>

\* an idle worker thread of the executor takes the oldest queued closure
Dequeue ==
    /\ Cardinality(busy) < max_workers
    /\ queue # <<>>
    /\ busy' = busy \cup {Head(queue)}
    /\ queue' = Tail(queue)
    /\ rpc' = [rpc EXCEPT ![Head(queue)] = "get_repo_lock"]
    /\ UNCHANGED <<jobs, lock, repo_locks, max_workers, call, cpc, store_vars, now, restarts, ext>>

\* _get_repo_lock: under self.lock, the Lock of repo_url is created if absent
GetRepoLock(j) ==
    /\ rpc[j] = "get_repo_lock"
    /\ lock = NoThread
    /\ LET k == call[j].repo_url
       IN  repo_locks' = [u \in DOMAIN repo_locks \cup {k} |->
                             IF u \in DOMAIN repo_locks THEN repo_locks[u] ELSE 0]
    /\ rpc' = [rpc EXCEPT ![j] = "acquire"]
    /\ UNCHANGED <<jobs, lock, pool_vars, call, cpc, store_vars, now, restarts, ext>>

\* a with repo_lock that does not wait for the Lock
AcquireRepoLockNoWait(j) ==
    /\ rpc[j] = "acquire"
    /\ repo_locks' = [repo_locks EXCEPT ![call[j].repo_url] = j]
    /\ rpc' = [rpc EXCEPT ![j] = "mark_running"]
    /\ UNCHANGED <<jobs, lock, pool_vars, call, cpc, store_vars, now, restarts, ext>>

\* a with repo_lock on one Lock shared by all repositories
AcquireRepoLockShared(j) ==
    /\ rpc[j] = "acquire"
    /\ \A u \in DOMAIN repo_locks : repo_locks[u] = 0
    /\ repo_locks' = [repo_locks EXCEPT ![call[j].repo_url] = j]
    /\ rpc' = [rpc EXCEPT ![j] = "mark_running"]
    /\ UNCHANGED <<jobs, lock, pool_vars, call, cpc, store_vars, now, restarts, ext>>

\* with repo_lock: entered once the Lock is free
AcquireRepoLock(j) ==
    /\ rpc[j] = "acquire"
    /\ repo_locks[call[j].repo_url] = 0
    /\ repo_locks' = [repo_locks EXCEPT ![call[j].repo_url] = j]
    /\ rpc' = [rpc EXCEPT ![j] = "mark_running"]
    /\ UNCHANGED <<jobs, lock, pool_vars, call, cpc, store_vars, now, restarts, ext>>

\* _update called by thread t at position from: the mutex is taken and the
\* record mutated (then position held), or job_id is unknown and _update
\* returns at once (then position skipped)
UpdateBegin(j, t, from, held, skipped, kwargs) ==
    /\ rpc[j] = from
    /\ lock = NoThread
    /\ LET job_id == jobs[j].id
       IN  IF job_id \in DOMAIN jobs
           THEN /\ jobs' = Updated(jobs, job_id, kwargs, now)
                /\ lock' = t
                /\ rpc' = [rpc EXCEPT ![j] = held]
           ELSE /\ UNCHANGED <<jobs, lock>>
                /\ rpc' = [rpc EXCEPT ![j] = skipped]
    /\ UNCHANGED <<repo_locks, pool_vars, call, cpc, store_vars, now, restarts, ext>>

\* the self._persist() that ends _update, and the release of the mutex
UpdateEnd(j, t, held, next) ==
    /\ rpc[j] = held
    /\ lock = t
    /\ UNCHANGED jobs
    /\ Persist
    /\ lock' = NoThread
    /\ rpc' = [rpc EXCEPT ![j] = next]
    /\ UNCHANGED <<repo_locks, pool_vars, call, cpc, redis_url, redis_store, store_up, outages, now, restarts, ext>>

\* self._update(job.id, status=JobStatus.RUNNING, progress="starting")
MarkRunning(j) ==
    UpdateBegin(j, Runner(j), "mark_running", "persist_running", "task", StartKwargs)

PersistRunning(j) == UpdateEnd(j, Runner(j), "persist_running", "task")

\* task(job) posts a progress marker: update_job(job.id, progress=p)
TaskPost(j, p) ==
    /\ rpc[j] = "task"
    /\ jobs[j].progress # PyStr(p)
    /\ UpdateBegin(j, Runner(j), "task", "persist_post", "task", [progress |-> PyStr(p)])

PersistPost(j) == UpdateEnd(j, Runner(j), "persist_post", "task")

\* task(job) has returned or raised: the final self._update(job.id, ...)
MarkFinal(j) ==
    UpdateBegin(j, Runner(j), "task", "persist_final", "release", FinalKwargs(call[j].task))

PersistFinal(j) == UpdateEnd(j, Runner(j), "persist_final", "release")

\* a release skipped when the task raised (acquire/release without finally)
ReleaseOnSuccessOnly(j) ==
    /\ rpc[j] = "release"
    /\ repo_locks' = IF call[j].task.raises THEN repo_locks
                     ELSE [repo_locks EXCEPT ![call[j].repo_url] = 0]
    /\ busy' = busy \ {j}
    /\ rpc' = [rpc EXCEPT ![j] = "done"]
    /\ UNCHANGED <<jobs, lock, queue, max_workers, call, cpc, store_vars, now, restarts, ext>>

\* a worker thread that is lost when the task raised
ReleaseLosesWorker(j) ==
    /\ rpc[j] = "release"
    /\ repo_locks' = [repo_locks EXCEPT ![call[j].repo_url] = 0]
    /\ busy' = IF call[j].task.raises THEN busy ELSE busy \ {j}
    /\ rpc' = [rpc EXCEPT ![j] = "done"]
    /\ UNCHANGED <<jobs, lock, queue, max_workers, call, cpc, store_vars, now, restarts, ext>>

\* the end of with repo_lock; the worker thread goes back to the pool
Release(j) ==
    /\ rpc[j] = "release"
    /\ repo_locks' = [repo_locks EXCEPT ![call[j].repo_url] = 0]
    /\ busy' = busy \ {j}
    /\ rpc' = [rpc EXCEPT ![j] = "done"]
    /\ UNCHANGED <<jobs, lock, queue, max_workers, call, cpc, store_vars, now, restarts, ext>>

\* ----------------------------------------------------------- outside callers
\* job ids an outside caller passes: the ids handed out, and one never handed out
OutsideIds == JobIds \cup {0}

\* keyword arguments an outside caller passes to update_job
OutsideKwargs ==
    {[status |-> st] : st \in {QUEUED, RUNNING, SUCCESS, FAILED}}
        \cup {[progress |-> PyStr("halfway")]}
        \cup {[repo_url |-> "repo2"], [id |-> 0]}

\* update_job(job_id, **kwargs) from outside: _update takes the mutex and
\* mutates the record, or returns at once for an unknown job_id
UpdateJob(job_id, kwargs) ==
    /\ ext.pc = "idle"
    /\ ext.calls < MaxCalls
    /\ lock = NoThread
    /\ IF job_id \in DOMAIN jobs
       THEN /\ jobs' = Updated(jobs, job_id, kwargs, now)
            /\ lock' = Outside
            /\ ext' = [pc |-> "persist", calls |-> ext.calls + 1, reply |-> NoReply]
       ELSE /\ UNCHANGED <<jobs, lock>>
            /\ ext' = [pc |-> "idle", calls |-> ext.calls + 1, reply |-> NoReply]
    /\ UNCHANGED <<repo_locks, pool_vars, call, cpc, rpc, store_vars, now, restarts>>

\* the self._persist() that ends that _update, and the release of the mutex
UpdateJobPersist ==
    /\ ext.pc = "persist"
    /\ lock = Outside
    /\ UNCHANGED jobs
    /\ Persist
    /\ lock' = NoThread
    /\ ext' = [ext EXCEPT !.pc = "idle"]
    /\ UNCHANGED <<repo_locks, pool_vars, call, cpc, rpc, redis_url, redis_store, store_up, outages, now, restarts>>

\* get_job(job_id): the record's dict, or None
GetJob(job_id) ==
    /\ ext.pc = "idle"
    /\ ext.calls < MaxCalls
    /\ lock = NoThread
    /\ ext' = [pc |-> "idle", calls |-> ext.calls + 1,
               reply |-> IF job_id \in DOMAIN jobs THEN DictReply(to_dict(jobs[job_id])) ELSE NoneReply]
    /\ UNCHANGED <<jobs, lock, repo_locks, pool_vars, call, cpc, rpc, store_vars, now, restarts>>

\* list_jobs(): the dicts of all records
ListJobs ==
    /\ ext.pc = "idle"
    /\ ext.calls < MaxCalls
    /\ lock = NoThread
    /\ ext' = [pc |-> "idle", calls |-> ext.calls + 1, reply |-> ListReply(Payload(jobs))]
    /\ UNCHANGED <<jobs, lock, repo_locks, pool_vars, call, cpc, rpc, store_vars, now, restarts>>

\* -------------------------------------------------------------- environment
\* the clock advances
Tick ==
    /\ now < MaxTime
    /\ now' = now + 1
    /\ UNCHANGED <<jobs, lock, repo_locks, pool_vars, call, cpc, rpc, store_vars, restarts, ext>>

\* the process stops and JobManager.__init__ runs in a new one: w is the new
\* max_workers, url whether a redis_url is given, built whether
\* RedisStore(redis_url) returns (it raises when the redis package cannot be
\* imported; redis.Redis.from_url opens no connection, so an unreachable
\* server does not make it raise)
Restart(w, url, built) ==
    /\ restarts < MaxRestarts
    /\ restarts' = restarts + 1
    /\ redis_url' = url
    /\ redis_store' = (url /\ built)
    /\ jobs' = LoadStore(url /\ built, store_up, now)
    /\ lock' = NoThread
    /\ repo_locks' = NoLocks
    /\ queue' = <<>>
    /\ max_workers' = w
    /\ busy' = {}
    /\ call' = [j \in JobIds |-> NoCall]
    /\ cpc' = [j \in JobIds |-> IF cpc[j] = "idle" THEN "idle" ELSE "dead"]
    /\ rpc' = [j \in JobIds |-> IF cpc[j] = "idle" THEN "none" ELSE "dead"]
    /\ ext' = [ext EXCEPT !.pc = "idle", !.reply = NoReply]
    /\ UNCHANGED <<file, redis, store_up, outages, now>>

\* the configured store becomes unreachable, or reachable again
StoreDown ==
    /\ store_up
    /\ outages < MaxOutages
    /\ store_up' = FALSE
    /\ outages' = outages + 1
    /\ UNCHANGED <<jobs, lock, repo_locks, pool_vars, call, cpc, rpc, redis_url, redis_store, file, redis, now, restarts, ext>>

StoreUp ==
    /\ ~store_up
    /\ store_up' = TRUE
    /\ UNCHANGED <<jobs, lock, repo_locks, pool_vars, call, cpc, rpc, redis_url, redis_store, file, redis, outages, now, restarts, ext>>

\* ----------------------------------------------------------- specifications
\* metadata of the calls in the specifications that do not read it back
PlainMetadatas == {[source |-> PyStr("api")]}

\* a thread calls create_job, with repo_url drawn from ks and metadata from ms
CreateCall(ks, ms) ==
    \E j \in JobIds, k \in ks, r \in RepoTypes, m \in ms, t \in Tasks :
        CreateJob(j, k, r, m, t)

\* one caller submits back-to-back: create_job is called only after every
\* earlier call of it has returned, or was made in a process that has stopped
CreateCallBackToBack(ks, ms) ==
    \E j \in JobIds, k \in ks, r \in RepoTypes, m \in ms, t \in Tasks :
        /\ \A i \in JobIds : i < j => cpc[i] \in {"done", "dead"}
        /\ CreateJob(j, k, r, m, t)

\* the later steps of the threads inside create_job
CreateNext ==
    \E j \in JobIds :
        \/ CreateInsert(j)
        \/ CreatePersist(j)
        \/ CreateSubmit(j)
        \/ CreateReturn(j)

\* the steps of the executor's worker threads
RunNext ==
    \/ Dequeue
    \/ \E j \in JobIds :
        \/ GetRepoLock(j)
        \/ AcquireRepoLock(j)
        \/ MarkRunning(j)
        \/ PersistRunning(j)
        \/ \E p \in ProgressMarks : TaskPost(j, p)
        \/ PersistPost(j)
        \/ MarkFinal(j)
        \/ PersistFinal(j)
        \/ Release(j)

\* one manager, its callers and its workers
Next ==
    \/ CreateCall(Keys, PlainMetadatas)
    \/ CreateNext
    \/ RunNext

\* the steps of a thread that calls the manager's other public methods
OutsideNext ==
    \/ \E job_id \in OutsideIds, kwargs \in OutsideKwargs : UpdateJob(job_id, kwargs)
    \/ UpdateJobPersist
    \/ \E job_id \in OutsideIds : GetJob(job_id)
    \/ ListJobs

\* the manager with callers of every public method
NextKw == Next \/ OutsideNext

\* the default configuration: no REDIS_URL
Init == \E w \in 1..MaxWorkers : Boot(w, FALSE)

Spec == Init /\ [][Next]_vars

SpecKw == Init /\ [][NextKw]_vars

\* every thread that can take a step takes one: the callers inside create_job
\* go on, the executor hands queued closures to idle workers, the workers go
\* on, and every task function returns or raises
Fairness ==
    /\ WF_vars(Dequeue)
    /\ \A j \in JobIds :
          /\ WF_vars(CreateInsert(j) \/ CreatePersist(j) \/ CreateSubmit(j) \/ CreateReturn(j))
          /\ WF_vars(GetRepoLock(j) \/ AcquireRepoLock(j) \/ MarkRunning(j)
                        \/ PersistRunning(j) \/ PersistPost(j) \/ MarkFinal(j)
                        \/ PersistFinal(j) \/ Release(j))

SpecLive == Init /\ [][Next]_vars /\ Fairness

\* managers that follow one another on the local file: the process stops at
\* any point and a new manager is built from what the file holds
NextBoot ==
    \/ Next
    \/ \E w \in 1..MaxWorkers : Restart(w, FALSE, FALSE)

SpecBoot == Init /\ [][NextBoot]_vars

\* the stores: either backend, any metadata, a clock that advances, a store
\* that becomes unreachable and comes back, and restarts on either backend;
\* one caller submits back-to-back for one repository to a pool of one worker
InitStore == \E use_redis \in BOOLEAN : Boot(1, use_redis)

NextStore ==
    \/ CreateCallBackToBack({"repo1"}, Metadatas)
    \/ CreateNext
    \/ RunNext
    \/ Tick
    \/ StoreDown
    \/ StoreUp
    \/ \E use_redis \in BOOLEAN : Restart(max_workers, use_redis, TRUE)

SpecStore == InitStore /\ [][NextStore]_vars

\* one manager whose jobs are submitted back-to-back, and its workers
NextSeq ==
    \/ CreateCallBackToBack(Keys, PlainMetadatas)
    \/ CreateNext
    \/ RunNext

SpecSeq == Init /\ [][NextSeq]_vars

\* a manager whose store fails: one caller submits back-to-back for one
\* repository to a pool of one worker and reads the records back, the
\* configured store becomes unreachable and comes back, and the process is
\* restarted with or without a redis_url, RedisStore constructible or not
InitDegraded == \E use_redis \in BOOLEAN : Boot(1, use_redis)

NextDegraded ==
    \/ CreateCallBackToBack({"repo1"}, PlainMetadatas)
    \/ CreateNext
    \/ RunNext
    \/ StoreDown
    \/ StoreUp
    \/ \E url \in BOOLEAN, built \in BOOLEAN : Restart(max_workers, url, built)
    \/ \E job_id \in OutsideIds : GetJob(job_id)
    \/ ListJobs

SpecDegraded == InitDegraded /\ [][NextDegraded]_vars /\ Fairness

\* ------------------------------------------------------------------- claims
\* the positions of _run inside with repo_lock
InInterval(j) ==
    rpc[j] \in {"mark_running", "persist_running", "task", "persist_post",
                "persist_final", "release"}

\* the jobs of this manager submitted for repository k
JobsOf(k) == {j \in JobIds : call[j].made /\ call[j].repo_url = k}

\* C1: for every repository key, at most one job with that repo_url is between
\* acquiring and releasing the repository lock in _run, whatever the pool size.
C1_MutualExclusion ==
    \A k \in Keys : Cardinality({j \in JobsOf(k) : InInterval(j)}) <= 1

\* two workers hold jobs of one repository: one inside the lock, one waiting
C1_Witness ==
    /\ max_workers >= 2
    /\ \E k \in Keys : \E a, b \in JobsOf(k) :
          /\ a # b
          /\ rpc[a] = "task"
          /\ rpc[b] = "acquire"

\* the place of a status in QUEUED -> RUNNING -> {SUCCESS | FAILED}
Rank(st) == IF st = QUEUED THEN 0 ELSE IF st = RUNNING THEN 1 ELSE 2

\* a record's status may stay, or move forward to a status of higher rank
Forward(old, new) == new = old \/ Rank(new) > Rank(old)

\* C2: under create_job, update_job with any keyword arguments, get_job,
\* list_jobs and worker steps, every record's status only moves forward along
\* QUEUED -> RUNNING -> {SUCCESS | FAILED} and a terminal status never changes.
C2_MonotonicStatus ==
    [][\A k \in DOMAIN jobs \cap DOMAIN jobs' :
          Forward(jobs[k].status, jobs'[k].status)]_vars

\* the task of job j has begun executing
TaskBegun(j) == rpc[j] \in {"task", "persist_post", "persist_final", "release", "done"}

\* C3 as stated: in every execution create_job has returned before the
\* submitted job's task begins executing.
C3_ReturnsBeforeTask ==
    \A j \in JobIds : TaskBegun(j) => cpc[j] = "done"

\* C3 as amended: create_job never waits for a worker, a repository lock or a
\* task: once the record is stored, executor.submit and the return can be taken
\* at once; the task begins only after executor.submit, so it can begin while
\* create_job has still to return.
C3_SubmitNeverWaits ==
    \A j \in JobIds :
        /\ cpc[j] = "submit" => ENABLED CreateSubmit(j)
        /\ cpc[j] = "return" => ENABLED CreateReturn(j)
        /\ TaskBegun(j) => cpc[j] \in {"return", "done"}

\* create_job is about to submit while every worker is busy and the lock of
\* its repository is held by another job
C3_Witness ==
    \E a, b \in JobIds :
        /\ a # b
        /\ cpc[b] = "submit"
        /\ Cardinality(busy) = max_workers
        /\ rpc[a] = "task"
        /\ call[a].repo_url = call[b].repo_url

\* jobs a then b of this manager, on one repository, both in the table
Pairs ==
    {p \in JobIds \X JobIds :
        /\ p[1] < p[2]
        /\ p[1] \in DOMAIN jobs /\ p[2] \in DOMAIN jobs
        /\ call[p[1]].made /\ call[p[2]].made
        /\ call[p[1]].repo_url = call[p[2]].repo_url}

\* C4 as stated: A then B submitted back-to-back on one repository, pool size
\* >= 2, A's task returning: B is never RUNNING (or beyond) before A is SUCCESS.
C4_SubmissionOrder ==
    \A p \in Pairs :
        (max_workers >= 2 /\ ~call[p[1]].task.raises /\ jobs[p[2]].status # QUEUED)
            => jobs[p[1]].status = SUCCESS

\* C4 as amended: A's closure is taken from the queue before B's and A and B
\* are never RUNNING together, but with two or more workers either may get the
\* lock first; only a pool of one worker runs A to its end before B starts.
C4_OrderOrExclusion ==
    \A p \in Pairs :
        /\ rpc[p[2]] # "none" => rpc[p[1]] # "none"
        /\ ~(jobs[p[1]].status = RUNNING /\ jobs[p[2]].status = RUNNING)
        /\ (max_workers = 1 /\ jobs[p[2]].status # QUEUED) => jobs[p[1]].status \in Terminal

\* B is RUNNING after A succeeded, in a pool of two or more workers
C4_Witness ==
    \E p \in Pairs :
        /\ max_workers >= 2
        /\ jobs[p[1]].status = SUCCESS
        /\ jobs[p[2]].status = RUNNING

\* C5: every job created by create_job eventually reaches SUCCESS or FAILED,
\* also with more submissions than workers and several jobs on one repository,
\* and no state is a deadlock: some thread can step unless every job is done.
C5_NoDroppedWork ==
    /\ \A j \in JobIds : (cpc[j] # "idle") ~> (j \in DOMAIN jobs /\ jobs[j].status \in Terminal)
    /\ [](ENABLED Next \/ \A j \in JobIds : rpc[j] = "done")

\* more jobs than workers were submitted, on one repository, and all are done
C5_Witness ==
    /\ max_workers < MaxJobs
    /\ \A j \in JobIds : rpc[j] = "done" /\ jobs[j].status \in Terminal
    /\ \A i, j \in JobIds : call[i].repo_url = call[j].repo_url

\* what _run has recorded for job j when its task has returned or raised
Recorded(j) ==
    IF call[j].task.raises
    THEN /\ jobs[j].status = FAILED
         /\ jobs[j].error = PyStr(call[j].task.msg)
         /\ jobs[j].progress = PyStr("error")
    ELSE /\ jobs[j].status = SUCCESS
         /\ jobs[j].error = PyNone
         /\ jobs[j].progress = PyStr("done")

\* C6: a worker starting a job sets status RUNNING and progress "starting"
\* before the task runs; a task that returns leaves SUCCESS, "done" and no
\* error; a task that raises with message m leaves FAILED, error m, "error".
C6_OutcomeRecording ==
    \A j \in JobIds :
        /\ rpc[j] = "persist_running"
              => jobs[j].status = RUNNING /\ jobs[j].progress = PyStr("starting")
        /\ rpc[j] \in {"task", "persist_post"} => jobs[j].status = RUNNING
        /\ rpc[j] \in {"persist_final", "release", "done"} => Recorded(j)

\* one job whose task raised and one whose task returned are both recorded
C6_Witness ==
    \E a, b \in JobIds :
        /\ rpc[a] = "done" /\ call[a].task.raises
        /\ rpc[b] = "done" /\ ~call[b].task.raises

\* job j's worker records the failure of its task in this step
RecordsFailure(j) ==
    rpc[j] = "task" /\ rpc'[j] = "persist_final" /\ call[j].task.raises

\* C7: a task that raises makes exactly its own record FAILED with an error,
\* leaves every other record as it was, gives its worker back to the pool, and
\* jobs submitted afterwards on other repositories still reach a terminal status.
C7_FailureIsolation ==
    /\ [][\A j \in JobIds : RecordsFailure(j) =>
            /\ jobs'[j].status = FAILED
            /\ jobs'[j].error # PyNone
            /\ \A i \in DOMAIN jobs \ {j} : jobs'[i] = jobs[i]]_vars
    /\ [][\A i \in DOMAIN jobs \cap DOMAIN jobs' :
            (jobs[i].status # FAILED /\ jobs'[i].status = FAILED) => RecordsFailure(i)]_vars
    /\ \A j \in JobIds :
          (j \in DOMAIN jobs /\ jobs[j].status = FAILED) ~> (j \notin busy)
    /\ \A a, b \in JobIds :
          (/\ a < b /\ a \in DOMAIN jobs /\ jobs[a].status = FAILED
           /\ cpc[b] # "idle" /\ call[b].repo_url # call[a].repo_url)
              ~> (b \in DOMAIN jobs /\ jobs[b].status \in Terminal)

\* a job failed, its worker is back, and a later job on another repository
\* has succeeded
C7_Witness ==
    \E a, b \in JobIds :
        /\ a < b
        /\ rpc[a] = "done" /\ jobs[a].status = FAILED /\ a \notin busy
        /\ rpc[b] = "done" /\ jobs[b].status = SUCCESS
        /\ call[b].repo_url # call[a].repo_url

\* C8: the repository lock is released on every exit path of _run: whenever
\* no job of a repository is inside with repo_lock, that repository's lock is
\* free, so a later job acquires it after an earlier one failed.
C8_LockReleased ==
    \A k \in DOMAIN repo_locks :
        (\A j \in JobsOf(k) : ~InInterval(j)) => repo_locks[k] = 0

\* a job holds the lock of a repository whose earlier job failed
C8_Witness ==
    \E k \in DOMAIN repo_locks : \E a, b \in JobsOf(k) :
        /\ rpc[a] = "done" /\ jobs[a].status = FAILED
        /\ rpc[b] = "task" /\ repo_locks[k] = b

\* the records with status RUNNING and repo_url k among the table keys ids
RunningOf(k, ids) ==
    {i \in ids : jobs[i].repo_url = k /\ jobs[i].status = RUNNING}

\* C9 as stated: in every state of the table, also after a manager is built
\* from a persisted snapshot and accepts new submissions, at most one record
\* per repository has status RUNNING.
C9_OneRunningPerKey ==
    \A k \in Keys : Cardinality(RunningOf(k, DOMAIN jobs)) <= 1

\* C9 as amended: at most one record per repository among those of the jobs
\* submitted to the current manager is RUNNING; records restored as RUNNING
\* from the snapshot stay RUNNING beside it.
C9_OneRunningPerKeyOwn ==
    \A k \in Keys :
        Cardinality(RunningOf(k, {i \in DOMAIN jobs : i \in JobIds /\ call[i].made})) <= 1

\* a new manager holds a record restored as RUNNING and runs its own job on
\* the same repository
C9_Witness ==
    /\ restarts > 0
    /\ \E a, b \in DOMAIN jobs :
          /\ cpc[a] = "dead" /\ jobs[a].status = RUNNING
          /\ rpc[b] = "task" /\ jobs[b].status = RUNNING
          /\ jobs[a].repo_url = jobs[b].repo_url

\* a new manager is built in this step by a process that stopped with the
\* table mutex free, on the backend the stopped manager wrote to
Reloads ==
    /\ restarts' = restarts + 1
    /\ lock = NoThread
    /\ redis_store' = redis_store

\* the fields of record new equal those of old, timestamps not less; metadata
\* is compared with expect
SameRecord(old, new, expect) ==
    /\ new.id = old.id
    /\ new.status = old.status
    /\ new.error = old.error
    /\ new.progress = old.progress
    /\ new.metadata = expect
    /\ new.created_at >= old.created_at
    /\ new.updated_at >= old.updated_at

\* metadata with every tuple turned into the list of its elements
TuplesAsLists(metadata) ==
    [k \in DOMAIN metadata |->
        IF metadata[k].py = "tuple" THEN PyList(metadata[k].v) ELSE metadata[k]]

Snapshot == IF redis_store THEN redis ELSE file

\* C11: a record inserted by create_job stays in the table for the rest of the
\* process lifetime, and a record written to a persisted snapshot is in every
\* later snapshot of that store, across submissions, updates, failed saves,
\* failed loads and restarts.
C11_NeverDeleted ==
    /\ [][restarts' = restarts => DOMAIN jobs \subseteq DOMAIN jobs']_vars
    /\ [][\A d \in file : \E e \in file' : e.id = d.id]_vars
    /\ [][\A d \in redis : \E e \in redis' : e.id = d.id]_vars

\* create_job call j is under way in the running process
Calling(j) == cpc[j] \notin {"idle", "dead"}

\* create_job call j has returned and its job has a terminal status in the table
Finished(j) ==
    /\ cpc[j] = "done"
    /\ rpc[j] = "done"
    /\ j \in DOMAIN jobs
    /\ jobs[j].status \in Terminal

\* reply is what get_job or list_jobs reports of the in-memory table
Reports(reply, table) ==
    \/ reply = NoneReply
    \/ reply = ListReply(Payload(table))
    \/ \E i \in DOMAIN table : reply = DictReply(to_dict(table[i]))

\* C12: when a persistence write fails, on the file or on Redis, create_job
\* still inserts the record and returns, the job still runs through RUNNING
\* to a terminal status in the table, get_job and list_jobs still report the
\* table, and no thread is stopped by the failure.
C12_SaveFailureHarmless ==
    /\ [](\A j \in JobIds :
            /\ cpc[j] \in {"submit", "return", "done"} => j \in DOMAIN jobs
            /\ cpc[j] = "persist" => ENABLED CreatePersist(j)
            /\ rpc[j] = "persist_running" => ENABLED PersistRunning(j)
            /\ rpc[j] = "persist_post" => ENABLED PersistPost(j)
            /\ rpc[j] = "persist_final" => ENABLED PersistFinal(j))
    /\ [][ext'.calls = ext.calls + 1 => Reports(ext'.reply, jobs)]_vars
    /\ \A j \in JobIds : Calling(j) ~> (Finished(j) \/ cpc[j] = "dead")

\* every write of a manager failed, its job is finished in the table and
\* get_job has reported it
C12_Witness ==
    /\ ~store_up
    /\ Snapshot = {}
    /\ \E j \in JobIds : Finished(j) /\ ext.reply = DictReply(to_dict(jobs[j]))

\* the caller's next create_job call is call j
NextCall(j) ==
    /\ cpc[j] = "idle"
    /\ \A i \in JobIds : i < j => cpc[i] \in {"done", "dead"}

\* C13: when the configured store cannot be read while a manager is
\* constructed, construction still succeeds with an empty table, and the
\* create_job calls made afterwards are accepted and their jobs run to a
\* terminal status.
C13_DegradedBoot ==
    /\ [](restarts < MaxRestarts =>
            \A url \in BOOLEAN, built \in BOOLEAN : ENABLED Restart(max_workers, url, built))
    /\ [][(restarts' = restarts + 1 /\ ~store_up) =>
            /\ jobs' = NoJobs
            /\ lock' = NoThread
            /\ queue' = <<>>]_vars
    /\ [](\A j \in JobIds : NextCall(j) =>
            \A t \in Tasks : ENABLED CreateJob(j, "repo1", "github", [source |-> PyStr("api")], t))
    /\ \A j \in JobIds :
          (restarts > 0 /\ Calling(j)) ~> (Finished(j) \/ cpc[j] = "dead")

\* a manager built while its store could not be read holds none of the
\* snapshot's records, and a job submitted to it has finished while the store
\* was still unreachable
C13_Witness ==
    /\ restarts = 1
    /\ ~store_up
    /\ Snapshot # {}
    /\ \A d \in Snapshot : d.id \notin DOMAIN jobs
    /\ \E j \in JobIds : Finished(j)

\* C14: a manager constructed with a redis_url while Redis cannot be reached
\* uses the local file as its backend: self.redis_store is unset, so that its
\* boot load and all its later saves go to the file and none to Redis.
C14_FallbackToFile ==
    [][(restarts' = restarts + 1 /\ redis_url' /\ ~store_up) => ~redis_store']_vars

\* the table keys of the records the current manager restored at boot
RestoredIds == {i \in DOMAIN jobs : i \in JobIds /\ cpc[i] = "dead"}

\* C15: a record restored by _load_store, RUNNING and QUEUED ones included,
\* gets the status, error and progress the snapshot holds and keeps them in
\* every later state of the new manager; construction enqueues no work, and no
\* worker ever takes a restored record, whatever jobs are submitted afterwards.
C15_NoResume ==
    /\ [][restarts' = restarts + 1 =>
            /\ queue' = <<>>
            /\ busy' = {}
            /\ \A d \in file :
                  /\ d.id \in DOMAIN jobs'
                  /\ jobs'[d.id].status = d.status
                  /\ jobs'[d.id].error = JsonLoadsValue(d.error)
                  /\ jobs'[d.id].progress = JsonLoadsValue(d.progress)]_vars
    /\ [][restarts' = restarts =>
            \A i \in RestoredIds : i \in DOMAIN jobs' /\ jobs'[i] = jobs[i]]_vars
    /\ [](\A i \in RestoredIds :
            /\ rpc[i] = "dead"
            /\ i \notin busy
            /\ \A n \in 1..Len(queue) : queue[n] # i)

\* a record restored as RUNNING is still RUNNING after a job submitted to the
\* new manager for the same repository has finished
C15_Witness ==
    /\ restarts = 1
    /\ \E i \in RestoredIds : \E j \in JobIds :
          /\ jobs[i].status = RUNNING
          /\ jobs[i].progress = PyStr("starting")
          /\ Finished(j)
          /\ jobs[j].repo_url = jobs[i].repo_url

\* C16: under create_job, update_job with any keyword arguments, get_job,
\* list_jobs and worker steps, no record's id, repo_url, repo_type or metadata
\* ever changes, and every table key equals the id stored in its record.
C16_ImmutableIdentity ==
    /\ [][\A k \in DOMAIN jobs \cap DOMAIN jobs' :
            /\ jobs'[k].id = jobs[k].id
            /\ jobs'[k].repo_url = jobs[k].repo_url
            /\ jobs'[k].repo_type = jobs[k].repo_type
            /\ jobs'[k].metadata = jobs[k].metadata]_vars
    /\ [](\A k \in DOMAIN jobs : jobs[k].id = k)

\* the table holds every record of the snapshot, none older than the snapshot's
AtLeastAsCurrent ==
    \A d \in Snapshot :
        /\ d.id \in DOMAIN jobs
        /\ jobs[d.id].updated_at >= d.updated_at

\* a thread releases the table mutex in this step after a save that succeeded
ReleasesAfterSave ==
    /\ lock # NoThread
    /\ lock' = NoThread
    /\ restarts' = restarts
    /\ store_up
    /\ CanDump(Payload(jobs'))

\* the snapshot equals the table, written as JSON, at every release of the
\* mutex that follows a successful save, and the table changes only under the
\* mutex: so they are equal whenever the mutex is free and the last save
\* succeeded
WriteThrough ==
    /\ [][ReleasesAfterSave => Snapshot' = JsonDumps(Payload(jobs'))]_vars
    /\ [][(lock = NoThread /\ lock' = NoThread /\ restarts' = restarts)
            => (jobs' = jobs /\ Snapshot' = Snapshot)]_vars

\* C17: the in-memory table is always at least as current as the last
\* successfully persisted snapshot, and whenever the table mutex is free and
\* the most recent save succeeded the snapshot equals the table.
C17_TableCurrency == []AtLeastAsCurrent /\ WriteThrough

\* C18: the map of repository locks has a mutex of its own, so a worker inside
\* _get_repo_lock never has to wait for a thread that holds the table mutex
\* for a table mutation or a persistence flush.
C18_RegistryNeverWaits ==
    \A j \in JobIds : rpc[j] = "get_repo_lock" => ENABLED GetRepoLock(j)

\* the positions at which a worker is inside self._persist()
PersistPositions == {"persist_running", "persist_post", "persist_final"}

\* C19: the table mutex is held only for a table read or mutation: no thread
\* holds it while its task function executes or while its persistence write
\* (file write or Redis set) is in progress.
C19_MutexScope ==
    \A j \in JobIds :
        /\ rpc[j] = "task" => lock # Runner(j)
        /\ rpc[j] \in PersistPositions => lock # Runner(j)
        /\ cpc[j] = "persist" => lock # Creator(j)

\* the submitted units in progress on a worker: waiting for the table mutex
\* or a repository lock, or executing
InProgress ==
    {j \in JobIds : rpc[j] \in {"get_repo_lock", "acquire", "mark_running", "persist_running",
                                 "task", "persist_post", "persist_final", "release"}}

\* the submitted units waiting in the executor's queue
Queued == {queue[n] : n \in 1..Len(queue)}

\* C20: a manager constructed with max_workers = W has at most W submitted
\* units in progress on workers in every state, however many jobs were
\* submitted; the other submitted units wait in the queue.
C20_BoundedPool ==
    /\ Cardinality(InProgress) <= max_workers
    /\ InProgress = busy
    /\ \A j \in JobIds :
          cpc[j] \in {"return", "done"} => (j \in Queued \/ j \in busy \/ rpc[j] = "done")
    /\ Queued \cap busy = {}

\* every worker is taken and a submitted unit waits in the queue
C20_Witness ==
    /\ Cardinality(InProgress) = max_workers
    /\ Queued # {}
    /\ \A j \in JobIds : cpc[j] = "done"

\* no other job of job j's repository is inside with repo_lock
AloneOnKey(j) ==
    \A i \in JobsOf(call[j].repo_url) \ {j} : ~InInterval(i)

\* C21: jobs with different repository keys are not serialized against each
\* other: a job waiting at with repo_lock enters as soon as no job of its own
\* repository is inside, whatever jobs of other repositories hold, and every
\* repository lock is held only by a job of that repository; with two workers
\* two jobs on different repositories execute their tasks together.
C21_CrossKeyIndependence ==
    /\ \A j \in JobIds :
          (rpc[j] = "acquire" /\ AloneOnKey(j)) => ENABLED AcquireRepoLock(j)
    /\ \A k \in DOMAIN repo_locks :
          repo_locks[k] # 0 => repo_locks[k] \in JobsOf(k)

\* two jobs on different repositories are inside their tasks together
C21_Witness ==
    /\ max_workers >= 2
    /\ \E a, b \in JobIds :
          /\ rpc[a] = "task"
          /\ rpc[b] = "task"
          /\ call[a].repo_url # call[b].repo_url

====
